---- MODULE Spec2Model ----
(***************************************************************************)
(* A model of the arena-city crate (src/src/lib.rs): ArenaCity<T>, a       *)
(* Mutex<Vec<T>> of recyclable values, and Citizen<T>, the handle that     *)
(* returns its value to the arena when dropped, after Sanitize.            *)
(*                                                                         *)
(* Worker threads call get_or_create / create / deref_mut / into_inner and *)
(* drop their Citizen; one more thread calls reduce_to (clear is           *)
(* reduce_to(0)).  A critical section is two steps, the one that takes the *)
(* lock and the one that changes the Vec and drops the guard, so that what *)
(* runs under the lock and what runs outside it is visible.                *)
(***************************************************************************)
EXTENDS Integers, Sequences, FiniteSets, TLC

\* Bounds of the model.
NumThreads == 2
MaxValues == 3
\* Largest tuple arity drawn (the crate implements arities 1 to 6).
MaxArity == 3

Threads == 1..NumThreads
\* The thread that calls reduce_to / clear.
Reducer == NumThreads + 1

\* Rust's Option<X>.
None == [some |-> FALSE]
Some(x) == [some |-> TRUE, v |-> x]

(***************************************************************************)
(* Values of the pooled type T.  A pooled value is [id, val]: id names the *)
(* object (a value moved in and out of the arena stays the same object),   *)
(* val is its content:                                                     *)
(*   <<"plain", d>>   a user type with `impl Sanitize for Foo {}`          *)
(*   <<"vec", elems>> a container with the `clear impl`                    *)
(*   <<"none">>, <<"some", x>>   Option<X>                                 *)
(*   <<"tuple", comps>>   a tuple, comps the sequence of its components    *)
(* One behaviour has one pooled type: a user type Foo, Vec<i32>,           *)
(* Option<Foo>, Option<Vec<i32>>, Option<Option<Foo>> or a tuple of        *)
(* Option<Vec<i32>> components.                                            *)
(***************************************************************************)
PlainValues == {<<"plain", 0>>, <<"plain", 1>>}
VecValues == {<<"vec", <<>>>>, <<"vec", <<10>>>>}
OptValues == {<<"none">>, <<"some", <<"plain", 0>>>>}

OptVecValues == {<<"none">>, <<"some", <<"vec", <<10>>>>>>}
OptOptValues ==
  {<<"none">>, <<"some", <<"none">>>>, <<"some", <<"some", <<"plain", 0>>>>>>}

\* The tuple types with a Sanitize impl, by arity.
TupleKinds == <<"tuple1", "tuple2", "tuple3", "tuple4", "tuple5", "tuple6">>
Arity(k) == CHOOSE n \in 1..Len(TupleKinds) : TupleKinds[n] = k
\* (Option<Vec<i32>>, ..) of arity n.
TupleValues(n) == {<<"tuple", c>> : c \in [1..n -> OptVecValues]}

TypeValues(k) ==
  CASE k = "plain" -> PlainValues
    [] k = "vec" -> VecValues
    [] k = "opt" -> OptValues
    [] k = "optvec" -> OptVecValues
    [] k = "optopt" -> OptOptValues
    [] OTHER -> TupleValues(Arity(k))

NoValue == [id |-> 0, val |-> <<>>]

RECURSIVE sanitize(_)
RECURSIVE sanitizeTuple(_, _)

\* A tuple impl that sanitizes every component before it looks at any
\* result: let a = self.0.sanitize(); let b = self.1.sanitize(); ..
sanitizeTupleEager(comps, i) ==
  IF i > Len(comps)
    THEN [ret |-> Some(<<>>), calls |-> <<>>]
    ELSE LET r == sanitize(comps[i])
             rest == sanitizeTuple(comps, i + 1)
         IN  [ret |-> IF r.some /\ rest.ret.some
                        THEN Some(<<r.v>> \o rest.ret.v) ELSE None,
              calls |-> <<i>> \o rest.calls]

\* The tuple impl, Some((self.0.sanitize()?, self.1.sanitize()?, ..)), from
\* component i on: ret is the result, calls the components whose sanitize
\* was called, in the order of the calls.  `?` returns None at once.
sanitizeTuple(comps, i) ==
  IF i > Len(comps)
    THEN [ret |-> Some(<<>>), calls |-> <<>>]
    ELSE LET r == sanitize(comps[i])
         IN  IF ~r.some
               THEN [ret |-> None, calls |-> <<i>>]
               ELSE LET rest == sanitizeTuple(comps, i + 1)
                    IN  [ret |-> IF rest.ret.some
                                   THEN Some(<<r.v>> \o rest.ret.v) ELSE None,
                         calls |-> <<i>> \o rest.calls]

\* sanitize with a container impl that forgets self.clear().
sanitizeNoClear(v) ==
  CASE v[1] = "plain" -> Some(v)
    [] v[1] = "vec" -> Some(v)
    [] v[1] = "some" -> LET r == sanitize(v[2])
                        IN  IF r.some THEN Some(<<"some", r.v>>) ELSE None
    [] v[1] = "none" -> None
    [] v[1] = "tuple" -> LET r == sanitizeTuple(v[2], 1).ret
                         IN  IF r.some THEN Some(<<"tuple", r.v>>) ELSE None

\* sanitize with an Option impl that passes None through.
sanitizeKeepNone(v) ==
  CASE v[1] = "plain" -> Some(v)
    [] v[1] = "vec" -> Some(<<"vec", <<>>>>)
    [] v[1] = "some" -> LET r == sanitize(v[2])
                        IN  IF r.some THEN Some(<<"some", r.v>>) ELSE None
    [] v[1] = "none" -> Some(v)
    [] v[1] = "tuple" -> LET r == sanitizeTuple(v[2], 1).ret
                         IN  IF r.some THEN Some(<<"tuple", r.v>>) ELSE None

\* sanitize with an Option impl that wraps the inner value as it is:
\* Some(v) => Some(Some(v)).
sanitizeSomeRaw(v) ==
  CASE v[1] = "plain" -> Some(v)
    [] v[1] = "vec" -> Some(<<"vec", <<>>>>)
    [] v[1] = "some" -> Some(v)
    [] v[1] = "none" -> None
    [] v[1] = "tuple" -> LET r == sanitizeTuple(v[2], 1).ret
                         IN  IF r.some THEN Some(<<"tuple", r.v>>) ELSE None

\* Sanitize::sanitize on the content of a value: the trait's default, the
\* `clear impl` of the containers, the impl for Option<T> and the impl for
\* tuples.
sanitize(v) ==
  CASE v[1] = "plain" -> Some(v)
    [] v[1] = "vec" -> Some(<<"vec", <<>>>>)
    [] v[1] = "some" -> LET r == sanitize(v[2])
                        IN  IF r.some THEN Some(<<"some", r.v>>) ELSE None
    [] v[1] = "none" -> None
    [] v[1] = "tuple" -> LET r == sanitizeTuple(v[2], 1).ret
                         IN  IF r.some THEN Some(<<"tuple", r.v>>) ELSE None

\* value.sanitize() on a pooled value: the object stays the same.
Sanitize(x) ==
  LET r == sanitize(x.val)
  IN  IF r.some THEN Some([id |-> x.id, val |-> r.v]) ELSE None

\* A pop that takes the oldest element (vec.remove(0)).
VecPopFirst(vec) ==
  IF Len(vec) = 0
    THEN [ret |-> None, vec |-> vec]
    ELSE [ret |-> Some(vec[1]), vec |-> SubSeq(vec, 2, Len(vec))]

\* A pop that returns the last element and leaves it in the vector.
VecPopKeep(vec) ==
  IF Len(vec) = 0
    THEN [ret |-> None, vec |-> vec]
    ELSE [ret |-> Some(vec[Len(vec)]), vec |-> vec]

\* Vec::pop: the last element, removed, or None.
VecPop(vec) ==
  IF Len(vec) = 0
    THEN [ret |-> None, vec |-> vec]
    ELSE [ret |-> Some(vec[Len(vec)]), vec |-> SubSeq(vec, 1, Len(vec) - 1)]

\* A push at the front (vec.insert(0, x)).
VecPushFront(vec, x) == <<x>> \o vec

\* A push that loses the value.
VecPushLost(vec, x) == vec

\* Vec::push.
VecPush(vec, x) == Append(vec, x)

\* A truncation that keeps the newest: vec.drain(..len - new_size).
reduce_toNewest(vec, new_size) ==
  IF Len(vec) > new_size
    THEN SubSeq(vec, Len(vec) - new_size + 1, Len(vec))
    ELSE vec

\* A truncation that is off by one: vec.drain(new_size + 1..).
reduce_toOffByOne(vec, new_size) ==
  IF Len(vec) > new_size THEN SubSeq(vec, 1, new_size + 1) ELSE vec

\* fn reduce_to(vec, new_size): vec.drain(new_size..) when longer.
reduce_to(vec, new_size) ==
  IF Len(vec) > new_size THEN SubSeq(vec, 1, new_size) ELSE vec

\* A create that leaves the Citizen without its arena: city: None.
createUnbound(p, x) == [city |-> None, value |-> x]

\* A create that binds every Citizen to one and the same arena.
createFirst(p, x) == [city |-> Some(1), value |-> x]

\* ArenaCity::create: a Citizen bound to the arena.
create(p, x) == [city |-> Some(p), value |-> x]

\* A take that reads city without clearing it.
takeKeepCity(c) ==
  IF c.city.some
    THEN [ret |-> Some([city |-> c.city.v, value |-> c.value]), self |-> c]
    ELSE [ret |-> None, self |-> c]

\* Citizen::take: city.take()?, then the value is moved out (its bits stay).
take(c) ==
  IF c.city.some
    THEN [ret |-> Some([city |-> c.city.v, value |-> c.value]),
          self |-> [c EXCEPT !.city = None]]
    ELSE [ret |-> None, self |-> c]

NoCitizen == [city |-> None, value |-> NoValue]
NoLocal == [city |-> 0, value |-> NoValue, clean |-> NoValue]

Ids(seq) == {seq[i].id : i \in 1..Len(seq)}

VARIABLES
  cities,     \* the ArenaCity instances
  kind,       \* the pooled type T
  storage,    \* per arena: the Vec<T> inside the Mutex
  lock,       \* per arena: the threads holding the Mutex (none or one)
  pc,         \* per worker thread: where it is
  citizen,    \* per worker thread: its Citizen (city, value)
  local,      \* per worker thread: the locals of the call in progress
  reducer,    \* the reduce_to call in progress, if any
  nextId,     \* the next fresh object
  discarded,  \* history: objects for which sanitize returned None
  escaped,    \* history: objects handed to the caller by into_inner
  truncated,  \* history: objects drained by reduce_to
  run,        \* history, per arena: the values released and not yet taken
              \* back, as they were when released, oldest first; emptied
              \* by a truncation
  lifo        \* history, per arena: how many acquisitions in a row, since
              \* the last release or truncation, returned the latest of run

vars == <<cities, kind, storage, lock, pc, citizen, local, reducer, nextId,
          discarded, escaped, truncated, run, lifo>>

ReducerIdle == [pc |-> "idle", city |-> 0]

InitWith(cs, k) ==
  /\ cities = cs
  /\ kind = k
  /\ storage = [p \in cs |-> <<>>]
  /\ lock = [p \in cs |-> {}]
  /\ pc = [t \in Threads |-> "idle"]
  /\ citizen = [t \in Threads |-> NoCitizen]
  /\ local = [t \in Threads |-> NoLocal]
  /\ reducer = ReducerIdle
  /\ nextId = 1
  /\ discarded = {}
  /\ escaped = {}
  /\ truncated = {}
  /\ run = [p \in cs |-> <<>>]
  /\ lifo = [p \in cs |-> 0]

\* One arena of Option<Foo>: a release either recycles or discards.
Init == InitWith({1}, "opt")
\* One arena of a type with the default Sanitize.
InitPlain == InitWith({1}, "plain")
\* One arena of Vec<i32>.
InitVec == InitWith({1}, "vec")
\* The types whose Sanitize is made from the Sanitize of their parts.
SanitizeKinds ==
  {"optvec", "optopt"} \cup {TupleKinds[n] : n \in 1..MaxArity}
\* One arena of one of these types.
InitSanitize == \E k \in SanitizeKinds : InitWith({1}, k)

\* History of a pop on arena p that returned r.
PoppedHist(p, r) ==
  IF r.some /\ run[p] # <<>> /\ r.v.id = run[p][Len(run[p])].id
    THEN /\ run' = [run EXCEPT ![p] = SubSeq(@, 1, Len(@) - 1)]
         /\ lifo' = [lifo EXCEPT ![p] = @ + 1]
    ELSE /\ run' = [run EXCEPT ![p] = <<>>]
         /\ lifo' = [lifo EXCEPT ![p] = 0]

\* History of a push on arena p of the value released as x.
PushedHist(p, x) ==
  /\ run' = [run EXCEPT ![p] = Append(@, x)]
  /\ lifo' = [lifo EXCEPT ![p] = 0]

\* History of a truncation of arena p.
ReducedHist(p) ==
  /\ run' = [run EXCEPT ![p] = <<>>]
  /\ lifo' = [lifo EXCEPT ![p] = 0]

\* get_or_create -> pop: self.0.lock()
PopLock(t, p) ==
  /\ pc[t] = "idle"
  /\ lock[p] = {}
  /\ lock' = [lock EXCEPT ![p] = {t}]
  /\ pc' = [pc EXCEPT ![t] = "pop"]
  /\ local' = [local EXCEPT ![t] = [NoLocal EXCEPT !.city = p]]
  /\ UNCHANGED <<cities, kind, storage, citizen, reducer, nextId,
                 discarded, escaped, truncated, run, lifo>>

\* A pop whose guard lives on while init runs, as in
\* match self.0.lock().pop() { Some(v) => v, None => init() }.
PopHoldLock(t) ==
  /\ pc[t] = "pop"
  /\ LET p == local[t].city
         r == VecPop(storage[p])
     IN  /\ storage' = [storage EXCEPT ![p] = r.vec]
         /\ PoppedHist(p, r.ret)
         /\ IF r.ret.some
              THEN /\ citizen' = [citizen EXCEPT ![t] = create(p, r.ret.v)]
                   /\ pc' = [pc EXCEPT ![t] = "active"]
                   /\ local' = [local EXCEPT ![t] = NoLocal]
                   /\ lock' = [lock EXCEPT ![p] = {}]
              ELSE /\ pc' = [pc EXCEPT ![t] = "init"]
                   /\ UNCHANGED <<citizen, local, lock>>
  /\ UNCHANGED <<cities, kind, reducer, nextId, discarded, escaped, truncated>>

\* A get_or_create that runs init whatever the pop returned, as in
\* self.pop().unwrap_or(init()).
PopEager(t) ==
  /\ pc[t] = "pop"
  /\ LET p == local[t].city
         r == VecPop(storage[p])
     IN  /\ storage' = [storage EXCEPT ![p] = r.vec]
         /\ lock' = [lock EXCEPT ![p] = {}]
         /\ PoppedHist(p, r.ret)
         /\ pc' = [pc EXCEPT ![t] = "init"]
         /\ UNCHANGED <<citizen, local>>
  /\ UNCHANGED <<cities, kind, reducer, nextId, discarded, escaped, truncated>>

\* pop under the lock, the guard dropped on return; then either
\* create(value) or init is to run.
Pop(t) ==
  /\ pc[t] = "pop"
  /\ LET p == local[t].city
         r == VecPop(storage[p])
     IN  /\ storage' = [storage EXCEPT ![p] = r.vec]
         /\ lock' = [lock EXCEPT ![p] = {}]
         /\ PoppedHist(p, r.ret)
         /\ IF r.ret.some
              THEN /\ citizen' = [citizen EXCEPT ![t] = create(p, r.ret.v)]
                   /\ pc' = [pc EXCEPT ![t] = "active"]
                   /\ local' = [local EXCEPT ![t] = NoLocal]
              ELSE /\ pc' = [pc EXCEPT ![t] = "init"]
                   /\ UNCHANGED <<citizen, local>>
  /\ UNCHANGED <<cities, kind, reducer, nextId, discarded, escaped, truncated>>

\* unwrap_or_else(init): init() returns a new value; create(value).
InitValue(t, v) ==
  /\ pc[t] = "init"
  /\ nextId <= MaxValues
  /\ citizen' = [citizen EXCEPT ![t] = create(local[t].city, [id |-> nextId, val |-> v])]
  /\ nextId' = nextId + 1
  /\ pc' = [pc EXCEPT ![t] = "active"]
  /\ local' = [local EXCEPT ![t] = NoLocal]
  /\ UNCHANGED <<cities, kind, storage, lock, reducer,
                 discarded, escaped, truncated, run, lifo>>

\* A create that also puts the value into storage.
CreatePush(t, p, v) ==
  /\ pc[t] = "idle"
  /\ nextId <= MaxValues
  /\ citizen' = [citizen EXCEPT ![t] = create(p, [id |-> nextId, val |-> v])]
  /\ storage' = [storage EXCEPT ![p] = VecPush(@, [id |-> nextId, val |-> v])]
  /\ nextId' = nextId + 1
  /\ pc' = [pc EXCEPT ![t] = "active"]
  /\ UNCHANGED <<cities, kind, lock, local, reducer,
                 discarded, escaped, truncated, run, lifo>>

\* ArenaCity::create(value) with a value of the caller's.
Create(t, p, v) ==
  /\ pc[t] = "idle"
  /\ nextId <= MaxValues
  /\ citizen' = [citizen EXCEPT ![t] = create(p, [id |-> nextId, val |-> v])]
  /\ nextId' = nextId + 1
  /\ pc' = [pc EXCEPT ![t] = "active"]
  /\ UNCHANGED <<cities, kind, storage, lock, local, reducer,
                 discarded, escaped, truncated, run, lifo>>

\* DerefMut: the holder changes the value in place.
DerefMut(t, v) ==
  /\ pc[t] = "active"
  /\ v # citizen[t].value.val
  /\ citizen' = [citizen EXCEPT ![t].value.val = v]
  /\ UNCHANGED <<cities, kind, storage, lock, pc, local, reducer, nextId,
                 discarded, escaped, truncated, run, lifo>>

\* An into_inner that copies the value out and leaves the Citizen bound.
IntoInnerKeep(t) ==
  /\ pc[t] = "active"
  /\ escaped' = escaped \cup {citizen[t].value.id}
  /\ pc' = [pc EXCEPT ![t] = "unwrapped"]
  /\ UNCHANGED <<cities, kind, storage, lock, citizen, local, reducer, nextId,
                 discarded, truncated, run, lifo>>

\* Citizen::into_inner: self.take().expect("value").1; self is dropped next.
IntoInner(t) ==
  /\ pc[t] = "active"
  /\ LET r == take(citizen[t])
     IN  /\ citizen' = [citizen EXCEPT ![t] = r.self]
         /\ IF r.ret.some
              THEN /\ escaped' = escaped \cup {r.ret.v.value.id}
                   /\ pc' = [pc EXCEPT ![t] = "unwrapped"]
              ELSE /\ pc' = [pc EXCEPT ![t] = "panicked"]
                   /\ UNCHANGED escaped
  /\ UNCHANGED <<cities, kind, storage, lock, local, reducer, nextId,
                 discarded, truncated, run, lifo>>

\* Drop for Citizen: if let Some((city, value)) = self.take()
Drop(t) ==
  /\ pc[t] \in {"active", "unwrapped"}
  /\ LET r == take(citizen[t])
     IN  IF r.ret.some
           THEN /\ citizen' = [citizen EXCEPT ![t] = r.self]
                /\ local' = [local EXCEPT ![t] =
                               [city |-> r.ret.v.city, value |-> r.ret.v.value,
                                clean |-> NoValue]]
                /\ pc' = [pc EXCEPT ![t] = "sanitize"]
           ELSE /\ citizen' = [citizen EXCEPT ![t] = NoCitizen]
                /\ pc' = [pc EXCEPT ![t] = "idle"]
                /\ UNCHANGED local
  /\ UNCHANGED <<cities, kind, storage, lock, reducer, nextId,
                 discarded, escaped, truncated, run, lifo>>

\* if let Some(value) = value.sanitize() { city.0.lock() ... }: sanitize
\* returns; on Some the thread goes on to take the lock, which it gets when
\* the lock is free.
SanitizeStep(t) ==
  /\ pc[t] = "sanitize"
  /\ LET r == Sanitize(local[t].value)
         p == local[t].city
     IN  IF r.some
           THEN /\ lock[p] = {}
                /\ lock' = [lock EXCEPT ![p] = {t}]
                /\ local' = [local EXCEPT ![t].clean = r.v]
                /\ pc' = [pc EXCEPT ![t] = "push"]
                /\ UNCHANGED <<citizen, discarded>>
           ELSE /\ discarded' = discarded \cup {local[t].value.id}
                /\ local' = [local EXCEPT ![t] = NoLocal]
                /\ citizen' = [citizen EXCEPT ![t] = NoCitizen]
                /\ pc' = [pc EXCEPT ![t] = "idle"]
                /\ UNCHANGED lock
  /\ UNCHANGED <<cities, kind, storage, reducer, nextId,
                 escaped, truncated, run, lifo>>

\* .push(value); the guard is dropped at the end of the statement.
Push(t) ==
  /\ pc[t] = "push"
  /\ LET p == local[t].city
     IN  /\ storage' = [storage EXCEPT ![p] = VecPush(@, local[t].clean)]
         /\ lock' = [lock EXCEPT ![p] = {}]
         /\ PushedHist(p, local[t].value)
  /\ pc' = [pc EXCEPT ![t] = "idle"]
  /\ local' = [local EXCEPT ![t] = NoLocal]
  /\ citizen' = [citizen EXCEPT ![t] = NoCitizen]
  /\ UNCHANGED <<cities, kind, reducer, nextId, discarded, escaped, truncated>>

\* ArenaCity::reduce_to(new_size): self.0.lock()
ReduceLock(p) ==
  /\ reducer.pc = "idle"
  /\ lock[p] = {}
  /\ lock' = [lock EXCEPT ![p] = {Reducer}]
  /\ reducer' = [pc |-> "reduce", city |-> p]
  /\ UNCHANGED <<cities, kind, storage, pc, citizen, local, nextId,
                 discarded, escaped, truncated, run, lifo>>

\* reduce_to(&mut guard, new_size), for the new_size the caller gave; the
\* guard is dropped.
Reduce(n) ==
  /\ reducer.pc = "reduce"
  /\ LET p == reducer.city
         kept == reduce_to(storage[p], n)
     IN  /\ storage' = [storage EXCEPT ![p] = kept]
         /\ truncated' = truncated \cup (Ids(storage[p]) \ Ids(kept))
         /\ lock' = [lock EXCEPT ![p] = {}]
         /\ ReducedHist(p)
  /\ reducer' = ReducerIdle
  /\ UNCHANGED <<cities, kind, pc, citizen, local, nextId, discarded, escaped>>

\* ArenaCity::reduce_to_mut(new_size): &mut self, so no Citizen borrows
\* the arena and no other call is in progress on it; no lock is taken.
ReduceToMut(p, n) ==
  /\ reducer.pc = "idle"
  /\ \A t \in Threads : pc[t] = "idle"
  /\ LET kept == reduce_to(storage[p], n)
     IN  /\ storage' = [storage EXCEPT ![p] = kept]
         /\ truncated' = truncated \cup (Ids(storage[p]) \ Ids(kept))
         /\ ReducedHist(p)
  /\ UNCHANGED <<cities, kind, lock, pc, citizen, local, reducer, nextId,
                 discarded, escaped>>

Next ==
  \/ \E t \in Threads, p \in cities : PopLock(t, p)
  \/ \E t \in Threads : Pop(t)
  \/ \E t \in Threads, v \in TypeValues(kind) : InitValue(t, v)
  \/ \E t \in Threads, p \in cities, v \in TypeValues(kind) : Create(t, p, v)
  \/ \E t \in Threads, v \in TypeValues(kind) : DerefMut(t, v)
  \/ \E t \in Threads : IntoInner(t)
  \/ \E t \in Threads : Drop(t)
  \/ \E t \in Threads : SanitizeStep(t)
  \/ \E t \in Threads : Push(t)
  \/ \E p \in cities : ReduceLock(p)
  \/ \E n \in 0..MaxValues : Reduce(n)
  \/ \E p \in cities, n \in 0..MaxValues : ReduceToMut(p, n)

Spec == Init /\ [][Next]_vars
SpecPlain == InitPlain /\ [][Next]_vars
SpecVec == InitVec /\ [][Next]_vars

\* Two arenas of Vec<i32>.
InitTwo == InitWith({1, 2}, "vec")
\* Acquisitions and releases on either arena.
NextTwo ==
  \/ \E t \in Threads, p \in cities : PopLock(t, p)
  \/ \E t \in Threads : Pop(t)
  \/ \E t \in Threads, v \in TypeValues(kind) : InitValue(t, v)
  \/ \E t \in Threads, p \in cities, v \in TypeValues(kind) : Create(t, p, v)
  \/ \E t \in Threads : Drop(t)
  \/ \E t \in Threads : SanitizeStep(t)
  \/ \E t \in Threads : Push(t)

SpecTwo == InitTwo /\ [][NextTwo]_vars

(***************************************************************************)
(* Progress.  An init closure may itself call get_or_create on the same    *)
(* arena and return the value it got (into_inner): the nested call takes   *)
(* the lock, pops, and on None makes a value of its own.  A call that has  *)
(* started keeps a fresh id in reserve, so that init can always return.    *)
(***************************************************************************)
Reserved ==
  Cardinality({t \in Threads : pc[t] \in {"pop", "init", "init_lock", "init_pop"}})
CanStart == nextId + Reserved <= MaxValues

\* init calls get_or_create on the arena: it is to take the lock.
InitNested(t) ==
  /\ pc[t] = "init"
  /\ pc' = [pc EXCEPT ![t] = "init_lock"]
  /\ UNCHANGED <<cities, kind, storage, lock, citizen, local, reducer, nextId,
                 discarded, escaped, truncated, run, lifo>>

\* The nested pop: self.0.lock()
InitPopLock(t) ==
  /\ pc[t] = "init_lock"
  /\ lock[local[t].city] = {}
  /\ lock' = [lock EXCEPT ![local[t].city] = {t}]
  /\ pc' = [pc EXCEPT ![t] = "init_pop"]
  /\ UNCHANGED <<cities, kind, storage, citizen, local, reducer, nextId,
                 discarded, escaped, truncated, run, lifo>>

\* The nested pop returns and the guard is dropped; the value popped, or on
\* None the value v of the nested init, is what init returns, and the
\* outer get_or_create wraps it: create(value).
InitPop(t, v) ==
  /\ pc[t] = "init_pop"
  /\ LET p == local[t].city
         r == VecPop(storage[p])
     IN  /\ storage' = [storage EXCEPT ![p] = r.vec]
         /\ lock' = [lock EXCEPT ![p] = {}]
         /\ PoppedHist(p, r.ret)
         /\ IF r.ret.some
              THEN /\ citizen' = [citizen EXCEPT ![t] = create(p, r.ret.v)]
                   /\ UNCHANGED nextId
              ELSE /\ nextId <= MaxValues
                   /\ citizen' = [citizen EXCEPT ![t] =
                                    create(p, [id |-> nextId, val |-> v])]
                   /\ nextId' = nextId + 1
  /\ pc' = [pc EXCEPT ![t] = "active"]
  /\ local' = [local EXCEPT ![t] = NoLocal]
  /\ UNCHANGED <<cities, kind, reducer, discarded, escaped, truncated>>

\* The calls that take the lock: get_or_create (with a plain or a nested
\* init), the release of a Citizen, reduce_to.
NextLive ==
  \/ \E t \in Threads, p \in cities : CanStart /\ PopLock(t, p)
  \/ \E t \in Threads : Pop(t)
  \/ \E t \in Threads, v \in TypeValues(kind) : InitValue(t, v)
  \/ \E t \in Threads : InitNested(t)
  \/ \E t \in Threads : InitPopLock(t)
  \/ \E t \in Threads, v \in TypeValues(kind) : InitPop(t, v)
  \/ \E t \in Threads : Drop(t)
  \/ \E t \in Threads : SanitizeStep(t)
  \/ \E t \in Threads : Push(t)
  \/ \E p \in cities : ReduceLock(p)
  \/ \E n \in 0..MaxValues : Reduce(n)

\* A thread that is inside a call takes its next step: code between two
\* lock operations runs on (WF), init and sanitize return (WF), and a
\* thread waiting for the parking_lot Mutex gets it if it is free again
\* and again (SF: the Mutex is eventually fair).  Starting a call, and
\* dropping a Citizen one holds, is up to the caller.  Running(t) is the
\* next step of thread t when it needs no lock, Locking(t) when it does;
\* sanitize returning and the lock being taken are one step.
Running(t) ==
  \/ Pop(t)
  \/ InitNested(t)
  \/ \E v \in TypeValues(kind) : InitValue(t, v) \/ InitPop(t, v)
  \/ Push(t)
Locking(t) == InitPopLock(t) \/ SanitizeStep(t)
Fairness ==
  /\ \A t \in Threads : WF_vars(Running(t)) /\ SF_vars(Locking(t))
  /\ WF_vars(\E n \in 0..MaxValues : Reduce(n))

SpecLive == Init /\ [][NextLive]_vars /\ Fairness

\* One thread creates, releases and reacquires values: every value of the
\* type goes through Sanitize::sanitize.
Caller == 1
NextSanitize ==
  \/ \E p \in cities, v \in TypeValues(kind) : Create(Caller, p, v)
  \/ Drop(Caller)
  \/ SanitizeStep(Caller)
  \/ Push(Caller)
  \/ \E p \in cities : PopLock(Caller, p)
  \/ Pop(Caller)
  \/ \E v \in TypeValues(kind) : InitValue(Caller, v)

SpecSanitize == InitSanitize /\ [][NextSanitize]_vars

(***************************************************************************)
(* Properties.                                                             *)
(***************************************************************************)
Last(seq) == seq[Len(seq)]

\* Thread t completes the pop of its get_or_create in this step.
PopStep(t) == pc[t] = "pop" /\ pc'[t] # "pop"

\* C1. Reuse correctness: when the latest value released to an arena and
\* not yet taken back (no truncation since) was returned unchanged by
\* sanitize, the next pop of a get_or_create on that arena yields a Citizen
\* of that arena wrapping exactly that value, content included, and init is
\* not invoked (no new value is made).
ReuseCorrectness ==
  [][\A t \in Threads :
       PopStep(t) =>
         LET p == local[t].city
         IN  (run[p] # <<>> /\ Sanitize(Last(run[p])) = Some(Last(run[p])))
               => /\ pc'[t] = "active"
                  /\ citizen'[t] = [city |-> Some(p), value |-> Last(run[p])]
                  /\ nextId' = nextId]_vars

\* C1 witness: the only value ever made, holding a changed content, was
\* released and is held again after a reusing pop.
ReuseCorrectnessWitness ==
  /\ kind = "plain"
  /\ nextId = 2
  /\ lifo[1] = 1
  /\ \E t \in Threads :
       /\ pc[t] = "active"
       /\ citizen[t].value = [id |-> 1, val |-> <<"plain", 1>>]

\* C2. LIFO reuse: a pop removes exactly the last element of storage, and
\* while released values remain it returns the latest of them without
\* invoking init; so values released A, B, C come back C, B, A.
LifoReuse ==
  [][\A t \in Threads :
       PopStep(t) =>
         LET p == local[t].city
         IN  /\ storage[p] # <<>> =>
                  /\ storage'[p] = SubSeq(storage[p], 1, Len(storage[p]) - 1)
                  /\ citizen'[t].value = Last(storage[p])
             /\ run[p] # <<>> =>
                  /\ pc'[t] = "active"
                  /\ citizen'[t].value.id = Last(run[p]).id
                  /\ nextId' = nextId]_vars

\* C2 witness: three values were made, all three were in storage, and three
\* acquisitions in a row each returned the latest release.
LifoReuseWitness ==
  /\ nextId = 4
  /\ lifo[1] = 3
  /\ storage[1] = <<>>
  /\ discarded = {} /\ truncated = {}

IsEmptyContainer(v) == v = <<"vec", <<>>>>

\* C3. Sanitization clears containers: in an arena of Vec every stored
\* value is empty, a release pushes an empty value, and a Citizen obtained
\* by reuse wraps an empty container.
SanitizationClears ==
  /\ [](kind = "vec" =>
          \A p \in cities : \A i \in 1..Len(storage[p]) :
            IsEmptyContainer(storage[p][i].val))
  /\ [][kind = "vec" =>
          \A t \in Threads :
            /\ (pc[t] = "push" /\ pc'[t] # "push") =>
                 IsEmptyContainer(Last(storage'[local[t].city]).val)
            /\ (PopStep(t) /\ pc'[t] = "active") =>
                 IsEmptyContainer(citizen'[t].value.val)]_vars

\* C3 witness: a value released holding 10 sits in storage, empty, and
\* another value has just been reused.
SanitizationClearsWitness ==
  /\ kind = "vec"
  /\ lifo[1] = 1
  /\ run[1] # <<>>
  /\ Last(run[1]).val = <<"vec", <<10>>>>
  /\ Last(storage[1]) = [id |-> Last(run[1]).id, val |-> <<"vec", <<>>>>]
  /\ \E t \in Threads :
       pc[t] = "active" /\ IsEmptyContainer(citizen[t].value.val)

\* The objects in an arena's storage, held by a bound Citizen, or taken by
\* a drop in progress.
Live(t) == citizen[t].city.some
StoredIds == UNION {Ids(storage[p]) : p \in cities}
HeldIds == {citizen[t].value.id : t \in {u \in Threads : Live(u)}}
InFlightIds == {local[t].value.id : t \in {u \in Threads : pc[u] \in {"sanitize", "push"}}}
Gone(S) == S \cap (StoredIds \cup HeldIds \cup InFlightIds) = {}

\* C4. Discard semantics: the release of a value whose sanitize rule signals
\* discard (an absent Option) ends without taking the lock and leaves every
\* storage unchanged; a discarded value is never in storage nor held again;
\* and a get_or_create whose pop finds storage empty invokes init.
DiscardSemantics ==
  /\ [](Gone(discarded))
  /\ [][\A t \in Threads :
          /\ (pc[t] = "sanitize" /\ pc'[t] # "sanitize"
                /\ local[t].value.val = <<"none">>)
               => /\ storage' = storage
                  /\ lock' = lock
                  /\ pc'[t] = "idle"
                  /\ local[t].value.id \in discarded'
          /\ (PopStep(t) /\ storage[local[t].city] = <<>>)
               => /\ pc'[t] = "init"
                  /\ storage' = storage]_vars

\* C4 witness: the only value ever made was discarded at its release, and
\* the next get_or_create, finding storage empty, is in init.
DiscardSemanticsWitness ==
  /\ nextId = 2
  /\ discarded = {1}
  /\ storage[1] = <<>>
  /\ \E t \in Threads : pc[t] = "init"
  /\ \A t \in Threads : pc[t] \in {"init", "idle"}

\* C5. No double-return: into_inner leaves storage unchanged, the drop of
\* the unwrapped Citizen ends at once with storage and lock unchanged, and
\* a value handed to the caller is never in storage, in a drop in progress
\* or held by a bound Citizen.
NoDoubleReturn ==
  /\ [](Gone(escaped))
  /\ [][\A t \in Threads :
          /\ (pc[t] = "active" /\ pc'[t] = "unwrapped")
               => storage' = storage /\ lock' = lock
          /\ (pc[t] = "unwrapped" /\ pc'[t] # "unwrapped")
               => /\ pc'[t] = "idle"
                  /\ storage' = storage
                  /\ lock' = lock]_vars

\* C5 witness: one value was made and unwrapped, its Citizen is gone, and
\* storage is empty.
NoDoubleReturnWitness ==
  /\ nextId = 2
  /\ escaped = {1}
  /\ storage[1] = <<>>
  /\ \A t \in Threads : pc[t] = "idle"

\* No call is in progress.
Quiescent ==
  /\ \A t \in Threads : pc[t] \in {"idle", "active"}
  /\ reducer.pc = "idle"

\* C6. Conservation: when no call is in progress, and as long as nothing was
\* unwrapped or truncated, the values in storage plus the values held by
\* bound Citizens are the values ever made minus those sanitize discarded.
Conservation ==
  (Quiescent /\ escaped = {} /\ truncated = {}) =>
    /\ Cardinality(StoredIds) + Cardinality({t \in Threads : Live(t)})
         = (nextId - 1) - Cardinality(discarded)
    /\ \A p \in cities : Cardinality(Ids(storage[p])) = Len(storage[p])
    /\ Cardinality(HeldIds) = Cardinality({t \in Threads : Live(t)})

\* C6 witness: three values were made; at rest one is in storage, one is
\* held and one was discarded.
ConservationWitness ==
  /\ Quiescent /\ escaped = {} /\ truncated = {}
  /\ nextId = 4
  /\ Cardinality(discarded) = 1
  /\ Len(storage[1]) = 1
  /\ Cardinality({t \in Threads : Live(t)}) = 1

\* C7. Exclusive ownership: no value is held by two bound Citizens and no
\* value in storage is held by a bound Citizen.
ExclusiveOwnership ==
  /\ \A t, u \in Threads :
       (t # u /\ Live(t) /\ Live(u)) => citizen[t].value.id # citizen[u].value.id
  /\ \A t \in Threads : Live(t) => citizen[t].value.id \notin StoredIds

\* C7 witness: two values were in storage and two acquisitions in a row
\* reused them; each thread holds one of them.
ExclusiveOwnershipWitness ==
  /\ nextId = 3
  /\ escaped = {}
  /\ lifo[1] = 2
  /\ \A t \in Threads : pc[t] = "active" /\ Live(t)
  /\ {citizen[t].value.id : t \in Threads} = {1, 2}

\* C8. The lock is not held across init or sanitize: a thread inside init
\* or sanitize holds no lock, and whoever holds a lock is at the one step
\* (pop, push, truncation) that ends by releasing it; so while a thread is
\* inside init or sanitize and no one else is in a critical section, any
\* other thread can take the lock for its pop, its push or a truncation.
LockNotHeldInCallbacks ==
  /\ \A t \in Threads :
       pc[t] \in {"init", "sanitize"} => \A p \in cities : t \notin lock[p]
  /\ \A p \in cities :
       /\ lock[p] \subseteq Threads \cup {Reducer}
       /\ Cardinality(lock[p]) <= 1
       /\ \A t \in lock[p] \cap Threads :
            pc[t] \in {"pop", "push"} /\ local[t].city = p
       /\ Reducer \in lock[p] => reducer = [pc |-> "reduce", city |-> p]
  /\ \A t, u \in Threads : \A p \in cities :
       (pc[t] \in {"init", "sanitize"} /\ u # t /\ lock[p] \subseteq {t}) =>
         /\ pc[u] = "idle" => ENABLED PopLock(u, p)
         /\ (pc[u] = "sanitize" /\ local[u].city = p) => ENABLED SanitizeStep(u)
         /\ reducer.pc = "idle" => ENABLED ReduceLock(p)

\* C8 witness: one thread is inside init while another holds the lock of the
\* same arena for its pop.
LockNotHeldInCallbacksWitness ==
  \E t, u \in Threads :
    /\ pc[t] = "init" /\ local[t].city = 1
    /\ pc[u] = "pop" /\ lock[1] = {u}

\* The Citizen of thread t exists, is Active (bound), is Spent.
Exists(t) == pc[t] \in {"active", "unwrapped", "sanitize", "push"}
Active(t) == Exists(t) /\ citizen[t].city.some
Spent(t) == Exists(t) /\ ~citizen[t].city.some

\* C9. Handle state machine: a Citizen starts Active; its value leaves it
\* (to the caller by into_inner, to sanitize by drop) only from Active, and
\* that step clears the back-reference; a Spent Citizen stays Spent until it
\* is gone, and nothing takes a value from it again.
HandleStateMachine ==
  /\ [](\A t \in Threads : (pc[t] = "active") = Active(t))
  /\ [][\A t \in Threads :
          /\ (~Exists(t) /\ Exists(t)') => Active(t)'
          /\ (Active(t) /\ ~Active(t)') => Spent(t)'
          /\ Spent(t) => (Spent(t)' \/ ~Exists(t)')
          /\ Spent(t) => (citizen[t].value.id \in escaped
                            <=> citizen[t].value.id \in escaped')
          /\ (Spent(t) /\ pc'[t] = "sanitize") => pc[t] = "sanitize"
          /\ (pc[t] = "active" /\ pc'[t] = "unwrapped")
               => citizen[t].value.id \notin escaped]_vars

\* C9 witness: one Citizen is Spent by into_inner and another by drop.
HandleStateMachineWitness ==
  \E t, u \in Threads :
    /\ pc[t] = "unwrapped" /\ Spent(t)
    /\ pc[u] = "sanitize" /\ Spent(u)

\* A truncation to n of arena p happens in this step.
ReduceStep(p, n) ==
  \/ reducer.pc = "reduce" /\ reducer.city = p /\ Reduce(n)
  \/ ReduceToMut(p, n)

\* C10 as stated: a truncation of a longer storage keeps the new_size most
\* recently released values, the last new_size elements.
TruncationKeepsNewest ==
  [][\A p \in cities : \A n \in 0..MaxValues :
       (ReduceStep(p, n) /\ Len(storage[p]) > n) =>
         storage'[p] = SubSeq(storage[p], Len(storage[p]) - n + 1, Len(storage[p]))]_vars

\* C10 amended. A truncation of a longer storage leaves exactly new_size
\* elements, the first new_size, which are the oldest releases (every later
\* release is above them: the values of run are the top of storage, in
\* order); the values it drops are never in storage nor held again.
TruncationKeepsOldest ==
  /\ [](Gone(truncated))
  /\ [](\A p \in cities :
          /\ Len(run[p]) <= Len(storage[p])
          /\ \A i \in 1..Len(run[p]) :
               run[p][i].id = storage[p][Len(storage[p]) - Len(run[p]) + i].id)
  /\ [][\A p \in cities : \A n \in 0..MaxValues :
          (ReduceStep(p, n) /\ Len(storage[p]) > n) =>
            /\ Len(storage'[p]) = n
            /\ storage'[p] = SubSeq(storage[p], 1, n)
            /\ truncated' = truncated \cup
                 {storage[p][i].id : i \in (n + 1)..Len(storage[p])}]_vars

\* C10 witness: three values were released and a truncation to one dropped
\* two of them.
TruncationKeepsOldestWitness ==
  /\ Len(storage[1]) = 1
  /\ Cardinality(truncated) = 2
  /\ reducer.pc = "idle"

\* C11. Truncation drops a suffix: reduce_to(new_size) (and reduce_to_mut)
\* on a storage of more than new_size elements removes the elements from
\* index new_size on and keeps the first new_size in their order; a storage
\* of new_size elements or fewer is left as it is; new_size = 0 (clear)
\* leaves it empty; no other arena's storage changes.
TruncationDropsSuffix ==
  [][\A p \in cities : \A n \in 0..MaxValues :
       ReduceStep(p, n) =>
         /\ Len(storage[p]) > n =>
              /\ storage'[p] = [i \in 1..n |-> storage[p][i]]
              /\ Ids(storage[p]) \ Ids(storage'[p])
                   = {storage[p][i].id : i \in (n + 1)..Len(storage[p])}
         /\ Len(storage[p]) <= n => storage'[p] = storage[p]
         /\ n = 0 => storage'[p] = <<>>
         /\ \A q \in cities \ {p} : storage'[q] = storage[q]]_vars

\* C11 witness: three values were stored and a truncation dropped exactly
\* one of them, the last.
TruncationDropsSuffixWitness ==
  /\ nextId = 4
  /\ Len(storage[1]) = 2
  /\ Cardinality(truncated) = 1
  /\ reducer.pc = "idle"
  /\ discarded = {} /\ escaped = {}
  /\ \A t \in Threads : pc[t] = "idle"

\* C12 as stated: the release of a Citizen wrapping an absent Option goes
\* on to push that absent Option, unchanged, into storage.
OptionAbsentRecycled ==
  [][\A t \in Threads :
       (pc[t] = "sanitize" /\ pc'[t] # "sanitize"
          /\ local[t].value.val = <<"none">>)
         => /\ pc'[t] = "push"
            /\ local'[t].clean = local[t].value]_vars

\* C12. Option rule, absent case: the sanitize of an absent Option is the
\* discard signal, so the release of a Citizen wrapping an absent Option
\* pushes nothing: no drop in progress carries an absent Option to the
\* push, and storage never holds an absent Option.
OptionAbsentDiscarded ==
  /\ \A t \in Threads :
       /\ (pc[t] = "sanitize" /\ local[t].value.val = <<"none">>)
            => Sanitize(local[t].value) = None
       /\ pc[t] = "push" => local[t].value.val # <<"none">>
  /\ \A p \in cities : \A i \in 1..Len(storage[p]) :
       storage[p][i].val # <<"none">>

\* C12 witness: the release of the only value ever made, an absent Option,
\* has ended: the value was discarded and storage is still empty.
OptionAbsentDiscardedWitness ==
  /\ kind = "opt"
  /\ nextId = 2
  /\ discarded = {1}
  /\ storage[1] = <<>>
  /\ \A t \in Threads : pc[t] = "idle"

\* C13. Option rule, present case: the sanitize of Some(x) applies the
\* inner type's sanitize to x; when that yields a cleaned x' the release
\* goes on to push Some(x'), and when it signals discard the whole Option
\* is discarded and storage is unchanged.  So every stored Option is a
\* present one wrapping a sanitized inner value.
OptionPresentRule ==
  /\ [](kind \in {"optvec", "optopt"} =>
          \A p \in cities : \A i \in 1..Len(storage[p]) :
            storage[p][i].val \in {<<"some", <<"vec", <<>>>>>>,
                                   <<"some", <<"some", <<"plain", 0>>>>>>})
  /\ [][\A t \in Threads :
          (pc[t] = "sanitize" /\ pc'[t] # "sanitize"
             /\ local[t].value.val[1] = "some")
            => LET x == local[t].value
                   inner == sanitize(x.val[2])
               IN  IF inner.some
                     THEN /\ pc'[t] = "push"
                          /\ local'[t].clean
                               = [id |-> x.id, val |-> <<"some", inner.v>>]
                     ELSE /\ pc'[t] = "idle"
                          /\ x.id \in discarded'
                          /\ storage' = storage]_vars

\* C13 witness: a Some(vec) was recycled as Some of the cleared vec, or a
\* Some(Some(x)) as itself, and a Some(None), whose inner rule discards, is
\* being sanitized.
OptionPresentRuleWitness ==
  /\ storage[1] # <<>>
  /\ \E t \in Threads :
       /\ pc[t] = "sanitize"
       /\ local[t].value.val = <<"some", <<"none">>>>

\* C14. Tuple rule: the sanitize of a tuple of 1 to 6 components calls the
\* components' sanitize from left to right; when every component yields a
\* value the result is the tuple of the sanitized components; at the first
\* component that signals discard the result is discard and no later
\* component is sanitized.  So every stored tuple has all its components
\* sanitized.
TupleRule ==
  /\ \A t \in Threads :
       (pc[t] = "sanitize" /\ local[t].value.val[1] = "tuple") =>
         LET x == local[t].value
             comps == x.val[2]
             n == Len(comps)
             D == {i \in 1..n : ~sanitize(comps[i]).some}
             calls == sanitizeTuple(comps, 1).calls
         IN  /\ n \in 1..Len(TupleKinds)
             /\ calls = [i \in 1..Len(calls) |-> i]
             /\ D = {} =>
                  /\ Len(calls) = n
                  /\ Sanitize(x)
                       = Some([id |-> x.id,
                               val |-> <<"tuple",
                                         [i \in 1..n |-> sanitize(comps[i]).v]>>])
             /\ D # {} =>
                  /\ Len(calls) = CHOOSE i \in D : \A j \in D : i <= j
                  /\ Sanitize(x) = None
  /\ \A p \in cities : \A i \in 1..Len(storage[p]) :
       storage[p][i].val[1] = "tuple" =>
         \A j \in 1..Len(storage[p][i].val[2]) :
           storage[p][i].val[2][j] = <<"some", <<"vec", <<>>>>>>

\* C14 witness: a tuple of three components was recycled, and one whose
\* second component signals discard is being sanitized.
TupleRuleWitness ==
  /\ kind = TupleKinds[3]
  /\ storage[1] # <<>>
  /\ \E t \in Threads :
       /\ pc[t] = "sanitize"
       /\ local[t].value.val[2][1] # <<"none">>
       /\ local[t].value.val[2][2] = <<"none">>

\* C15. into_inner on a Spent Citizen would panic (take returns None and
\* expect("value") fails), and that never happens: no thread ever panics,
\* and every into_inner runs on an Active Citizen and hands its value out.
IntoInnerNeverPanics ==
  /\ [](\A t \in Threads :
          /\ pc[t] # "panicked"
          /\ Spent(t) => ~take(citizen[t]).ret.some)
  /\ [][\A t \in Threads :
          (pc[t] = "active" /\ pc'[t] \in {"unwrapped", "panicked"})
            => /\ Active(t)
               /\ pc'[t] = "unwrapped"
               /\ take(citizen[t]).ret.some
               /\ citizen[t].value.id \in escaped']_vars

\* C15 witness: two Citizens were unwrapped by into_inner, one of them is
\* still on its way out, Spent.
IntoInnerNeverPanicsWitness ==
  /\ Cardinality(escaped) = 2
  /\ \E t \in Threads : pc[t] = "unwrapped" /\ Spent(t)

\* C16. create(value) returns an Active Citizen bound to this arena and
\* wrapping the value, and leaves every storage and every lock as they are;
\* a value enters a storage only by the push of a release whose sanitize
\* yielded a value, and what enters is that sanitized value.
CreateFrame ==
  /\ [][\A t \in Threads : \A p \in cities : \A v \in TypeValues(kind) :
          Create(t, p, v) =>
            /\ citizen'[t] = [city |-> Some(p),
                              value |-> [id |-> nextId, val |-> v]]
            /\ Active(t)'
            /\ storage' = storage
            /\ lock' = lock]_vars
  /\ [][\A p \in cities : \A x \in Ids(storage'[p]) \ Ids(storage[p]) :
          \E t \in Threads :
            /\ pc[t] = "push" /\ pc'[t] = "idle"
            /\ local[t].value.id = x
            /\ local[t].city = p
            /\ Sanitize(local[t].value).some
            /\ storage'[p] = Append(storage[p], Sanitize(local[t].value).v)]_vars

\* C16 witness: a value given to create is held by an Active Citizen while
\* storage is empty, the locks free and nothing else has happened.
CreateFrameWitness ==
  /\ nextId = 2
  /\ storage[1] = <<>> /\ lock[1] = {}
  /\ \E t \in Threads :
       /\ Active(t) /\ citizen[t].value.id = 1
       /\ \A u \in Threads \ {t} : pc[u] = "idle"

\* C17. get_or_create runs init exactly when its pop, under the lock, found
\* storage empty: on a non-empty storage the pop removes the last element
\* only, the Citizen wraps it and no value is made; on an empty storage the
\* pop changes nothing, init runs next, and the value init returns goes
\* into the Citizen without any change of storage.
InitOnlyOnEmpty ==
  [][\A t \in Threads :
       /\ PopStep(t) =>
            LET p == local[t].city
            IN  /\ t \in lock[p]
                /\ (pc'[t] = "init") <=> (storage[p] = <<>>)
                /\ storage[p] # <<>> =>
                     /\ pc'[t] = "active"
                     /\ Len(storage'[p]) = Len(storage[p]) - 1
                     /\ storage[p] = Append(storage'[p], citizen'[t].value)
                     /\ nextId' = nextId
                /\ storage[p] = <<>> => storage' = storage
                /\ \A q \in cities \ {p} : storage'[q] = storage[q]
       /\ (pc[t] # "init" /\ pc'[t] = "init")
            => pc[t] = "pop" /\ storage[local[t].city] = <<>>
       /\ (pc[t] = "init" /\ pc'[t] # "init")
            => /\ storage' = storage
               /\ pc'[t] = "active"
               /\ citizen'[t].value.id = nextId
               /\ nextId' = nextId + 1]_vars

\* C17 witness: one get_or_create found storage empty and is in init, and
\* after that another one, finding a released value, reused it.
InitOnlyOnEmptyWitness ==
  \E t, u \in Threads :
    /\ pc[t] = "init"
    /\ pc[u] = "active"
    /\ lifo[1] = 1
    /\ storage[1] = <<>>

\* C18. With several arenas of one type, a Citizen is bound to the arena it
\* was obtained from and stays bound to it; its release takes that arena's
\* lock and pushes the sanitized value at the end of that arena's storage;
\* the storage and the lock of every other arena are left as they are.
ReleaseToOwnArena ==
  /\ [](\A t \in Threads : pc[t] = "push" => lock[local[t].city] = {t})
  /\ [][\A t \in Threads :
          /\ \A p \in cities : \A v \in TypeValues(kind) :
               Create(t, p, v) => citizen'[t].city = Some(p)
          /\ (pc[t] \in {"pop", "init"} /\ pc'[t] = "active")
               => citizen'[t].city = Some(local[t].city)
          /\ (Live(t) /\ Live(t)') => citizen'[t].city = citizen[t].city
          /\ (pc[t] = "active" /\ pc'[t] = "sanitize")
               => /\ local'[t].city = citizen[t].city.v
                  /\ local'[t].value = citizen[t].value
          /\ (pc[t] = "sanitize" /\ pc'[t] = "push")
               => /\ local'[t].city = local[t].city
                  /\ \A q \in cities \ {local[t].city} : lock'[q] = lock[q]
          /\ (pc[t] = "push" /\ pc'[t] # "push")
               => LET p == local[t].city
                  IN  /\ storage'[p]
                           = Append(storage[p], Sanitize(local[t].value).v)
                      /\ \A q \in cities \ {p} :
                           /\ storage'[q] = storage[q]
                           /\ lock'[q] = lock[q]]_vars

\* C18 witness: releases have put one value into the storage of the first
\* arena and two into the storage of the second.
ReleaseToOwnArenaWitness ==
  /\ cities = {1, 2}
  /\ Len(storage[1]) = 1
  /\ Len(storage[2]) = 2
  /\ \A t \in Threads : pc[t] = "idle"

\* C19. Extended conservation: every value ever made is in exactly one
\* place: in storage (once), held by a bound Citizen, taken by a release in
\* progress, handed to the caller by into_inner, discarded by sanitize, or
\* dropped by a truncation.  When no call is in progress no release is in
\* progress, so the other five places partition the values ever made; in
\* particular a truncated value is never a held one.
ExtendedConservation ==
  LET All == 1..(nextId - 1)
      Parts == <<StoredIds, HeldIds, escaped, discarded, truncated,
                 InFlightIds>>
  IN  /\ UNION {Parts[i] : i \in DOMAIN Parts} = All
      /\ \A i, j \in DOMAIN Parts : i < j => Parts[i] \cap Parts[j] = {}
      /\ \A p \in cities : Cardinality(Ids(storage[p])) = Len(storage[p])
      /\ \A p, q \in cities :
           p # q => Ids(storage[p]) \cap Ids(storage[q]) = {}
      /\ Cardinality(HeldIds) = Cardinality({t \in Threads : Live(t)})
      /\ Quiescent => InFlightIds = {}

\* C19 witness: at rest, of three values made, one is held, one is in
\* storage and one was dropped by a truncation.
ExtendedConservationWitness ==
  /\ Quiescent
  /\ nextId = 4
  /\ Cardinality(truncated) = 1
  /\ Cardinality(HeldIds) = 1
  /\ Len(storage[1]) = 1

====
